---- MODULE Spec2Model ----
(***************************************************************************)
(* One run of githubappCatalogCreation.py: main() validates the action     *)
(* switches, issues the GitHub App installation token, then dispatches to  *)
(* list_repositories (descriptor generation) or register_yamls.            *)
(*                                                                         *)
(* Text values (names, URLs, option values) are tuples of one-character    *)
(* strings, so that lower(), re.match and string concatenation are         *)
(* computed on the characters.  The GitHub API, the Harness API, the key   *)
(* file and the services/ directory are the environment: every response    *)
(* is drawn from a small set when the request is made.                     *)
(***************************************************************************)
EXTENDS Integers, Sequences, FiniteSets, TLC

VARIABLES
    args,                \* argparse namespace of the run
    current_directory,   \* module global, basename of the working directory
    branch,              \* module global, "main" unless --branch is given
    services,            \* the ./services directory on disk
    pc,                  \* position of the run
    key_read,            \* the private key file has been opened
    jwt_token,           \* result of generate_jwt
    installation_token,  \* result of get_installation_token
    net,                 \* HTTP requests sent so far, each with its outcome
    fs_writes,           \* directories created and files written by this run
    printed,             \* diagnostics printed by main
    called,              \* modes main has dispatched to
    served,              \* repositories the GitHub API has already paged out
    page,                \* get_repositories_api: next page number
    all_repos_info,      \* get_repositories_api: accumulated records
    idx,                 \* list_repositories: position in the returned list
    yaml_files_created,  \* list_repositories: counter
    repos,               \* register_yamls: subdirectories still to process
    count,               \* register_yamls: counter
    failed               \* register_yamls: repositories reported as failed

vars == <<args, current_directory, branch, services, pc, key_read, jwt_token,
          installation_token, net, fs_writes, printed, called, served, page,
          all_repos_info, idx, yaml_files_created, repos, count, failed>>

(***************************************************************************)
(* Bounds of the environment.                                              *)
(***************************************************************************)
MaxRepos == 3   \* repositories the organization's API pages out in one run
PerPage == 2    \* records on one page (per_page, 100 in the program)

(***************************************************************************)
(* Text helpers.                                                           *)
(***************************************************************************)
None == <<"None">>

LowerChar(c) ==
    CASE c = "I" -> "i"
      [] c = "S" -> "s"
      [] c = "W" -> "w"
      [] OTHER -> c

\* str.lower()
Lower(s) == [i \in DOMAIN s |-> LowerChar(s[i])]

\* re.match(pattern, s) for patterns made of literal characters and ".":
\* the match is anchored at the start of s only.
ReMatch(pattern, s) ==
    /\ Len(pattern) <= Len(s)
    /\ \A i \in 1..Len(pattern) : pattern[i] = "." \/ pattern[i] = s[i]

\* repo_pattern is None or re.match(repo_pattern, repo_name)
PatternAccepts(pattern, repo_name) ==
    pattern = None \/ ReMatch(pattern, repo_name)

Range(s) == {s[i] : i \in DOMAIN s}

(***************************************************************************)
(* Input domains.                                                          *)
(***************************************************************************)
RepoNames == {<<"I", "d">>, <<"s", "a">>, <<"W", "d">>}

\* One record of the organization's repository collection.  Repository
\* names are unique in an organization regardless of case.
ApiRepo(n) == [name |-> n, html_url |-> <<"u", "/">> \o n]

ApiRepos == {ApiRepo(n) : n \in RepoNames}

WorkingDirs == {<<"i", "d">>, <<"I", "d">>}

Orgs == {None, <<"o">>}
ApiKeys == {None, <<"k">>}
Accounts == {None, <<"a">>}
Patterns == {None, <<"s">>, <<".", "d">>}
Branches == {None, <<"d", "e", "v">>}

Args ==
    [create_yamls : BOOLEAN, register_yamls : BOOLEAN, run_all : BOOLEAN,
     org : Orgs, x_api_key : ApiKeys, account : Accounts,
     repo_pattern : Patterns, branch : Branches]

DefaultBranch == <<"m", "a", "i", "n">>

\* yaml_content_template.format(...): the four substituted fields.
YamlContent(organization, repo_name, repo_path) ==
    [name |-> repo_name,
     source_location |-> <<"u", "r", "l", ":">> \o repo_path,
     project_slug |-> organization \o <<"/">> \o repo_name,
     system |-> organization]

StaleContent == YamlContent(<<"x">>, <<"o", "l", "d">>, <<"u">>)

Dir(content) == [isdir |-> TRUE, yaml |-> content]
PlainFile == [isdir |-> FALSE, yaml |-> <<>>]

\* States of ./services before the run: absent, empty, or holding entries
\* left by earlier runs (directories with or without a descriptor, and a
\* plain file).
InitServices ==
    { [exists |-> FALSE, entries |-> <<>>],
      [exists |-> TRUE, entries |-> <<>>],
      [exists |-> TRUE,
       entries |-> (<<"s", "a">> :> Dir(<<StaleContent>>))],
      [exists |-> TRUE,
       entries |-> (<<"i", "d">> :> Dir(<<StaleContent>>)) @@
                   (<<"s", "a">> :> Dir(<<>>))],
      [exists |-> TRUE,
       entries |-> (<<"I", "d">> :> Dir(<<StaleContent>>)) @@
                   (<<"s", "a">> :> Dir(<<StaleContent>>)) @@
                   (<<"w", "d">> :> PlainFile)] }

(***************************************************************************)
(* Initial state: the process has started, nothing has run.                *)
(***************************************************************************)
Init ==
    /\ args \in Args
    /\ current_directory \in WorkingDirs
    /\ branch = DefaultBranch
    /\ services \in InitServices
    /\ pc = "main"
    /\ key_read = FALSE
    /\ jwt_token = None
    /\ installation_token = None
    /\ net = <<>>
    /\ fs_writes = {}
    /\ printed = {}
    /\ called = {}
    /\ served = {}
    /\ page = 1
    /\ all_repos_info = <<>>
    /\ idx = 1
    /\ yaml_files_created = 0
    /\ repos = {}
    /\ count = 0
    /\ failed = {}

(***************************************************************************)
(* main(): validation of the action switches, lines 214-220.               *)
(***************************************************************************)
AnySwitch(a) == a.create_yamls \/ a.register_yamls \/ a.run_all

\* Variant: the early return of line 218 is missing.
MainValidate_NoReturn ==
    /\ pc = "main"
    /\ printed' = IF ~AnySwitch(args) THEN printed \cup {"no_action"}
                                      ELSE printed
    /\ branch' = IF args.branch # None THEN args.branch ELSE branch
    /\ pc' = "generate_jwt"
    /\ UNCHANGED <<args, current_directory, services, key_read, jwt_token,
                   installation_token, net, fs_writes, called, served, page,
                   all_repos_info, idx, yaml_files_created, repos, count,
                   failed>>

MainValidate ==
    /\ pc = "main"
    /\ IF ~AnySwitch(args)
         THEN /\ printed' = printed \cup {"no_action"}
              /\ pc' = "exited"
              /\ UNCHANGED branch
         ELSE /\ branch' = IF args.branch # None THEN args.branch ELSE branch
              /\ pc' = "generate_jwt"
              /\ UNCHANGED printed
    /\ UNCHANGED <<args, current_directory, services, key_read, jwt_token,
                   installation_token, net, fs_writes, called, served, page,
                   all_repos_info, idx, yaml_files_created, repos, count,
                   failed>>

(***************************************************************************)
(* generate_jwt(): the key file is opened and parsed; an unreadable or     *)
(* invalid key, or a signing error, ends the process with exit(1).         *)
(***************************************************************************)
GenerateJwt ==
    /\ pc = "generate_jwt"
    /\ key_read' = TRUE
    /\ \E key_ok \in BOOLEAN, sign_ok \in BOOLEAN :
         IF ~key_ok
           THEN /\ printed' = printed \cup {"key_error"}
                /\ pc' = "fatal"
                /\ UNCHANGED jwt_token
           ELSE IF ~sign_ok
             THEN /\ printed' = printed \cup {"jwt_error"}
                  /\ pc' = "fatal"
                  /\ UNCHANGED jwt_token
             ELSE /\ jwt_token' = <<"j", "w", "t">>
                  /\ pc' = "get_installation_token"
                  /\ UNCHANGED printed
    /\ UNCHANGED <<args, current_directory, branch, services,
                   installation_token, net, fs_writes, called, served, page,
                   all_repos_info, idx, yaml_files_created, repos, count,
                   failed>>

(***************************************************************************)
(* Outcome of one HTTP call: a response with a status, or an exception     *)
(* raised by the transport.                                                *)
(***************************************************************************)
Response(s) == [raised |-> FALSE, status |-> s]
Raised == [raised |-> TRUE, status |-> 0]

TokenOutcomes == {Response(201), Response(200), Response(401), Raised}

\* Variant: any success status is taken for an issued token.
TokenIssued_AnySuccess(r) == ~r.raised /\ r.status \in {200, 201}

\* response.status_code == 201
TokenIssued(r) == ~r.raised /\ r.status = 201

(***************************************************************************)
(* get_installation_token(): one POST; anything but 201 raises, and main   *)
(* does not catch it.                                                      *)
(***************************************************************************)
GetInstallationToken ==
    /\ pc = "get_installation_token"
    /\ \E r \in TokenOutcomes :
         /\ net' = Append(net, [kind |-> "access_tokens",
                                auth |-> jwt_token,
                                raised |-> r.raised,
                                status |-> r.status])
         /\ IF TokenIssued(r)
              THEN /\ installation_token' = <<"t", "o", "k">>
                   /\ pc' = "dispatch"
              ELSE /\ pc' = "fatal"
                   /\ UNCHANGED installation_token
    /\ UNCHANGED <<args, current_directory, branch, services, key_read,
                   jwt_token, fs_writes, printed, called, served, page,
                   all_repos_info, idx, yaml_files_created, repos, count,
                   failed>>

(***************************************************************************)
(* main(): mode dispatch, lines 229-238.  The register branch is an elif   *)
(* of the create branch, and there is no branch for run_all.               *)
(***************************************************************************)
CreateInputsMissing(a) == a.org = None

RegisterInputsMissing(a) ==
    a.org = None \/ a.x_api_key = None \/ a.account = None

Dispatch ==
    /\ pc = "dispatch"
    /\ IF args.create_yamls
         THEN IF CreateInputsMissing(args)
                THEN /\ printed' = printed \cup {"missing_input"}
                     /\ pc' = "exited"
                     /\ UNCHANGED <<called, yaml_files_created, page,
                                    all_repos_info>>
                ELSE \* list_repositories(...) up to its call of
                     \* get_repositories_api(organization, token)
                     /\ called' = called \cup {"create"}
                     /\ yaml_files_created' = 0
                     /\ page' = 1
                     /\ all_repos_info' = <<>>
                     /\ pc' = "get_repositories_api"
                     /\ UNCHANGED printed
         ELSE IF args.register_yamls
           THEN IF RegisterInputsMissing(args)
                  THEN /\ printed' = printed \cup {"missing_input"}
                       /\ pc' = "exited"
                       /\ UNCHANGED <<called, yaml_files_created, page,
                                      all_repos_info>>
                  ELSE /\ called' = called \cup {"register"}
                       /\ pc' = "listdir"
                       /\ UNCHANGED <<printed, yaml_files_created, page,
                                      all_repos_info>>
           ELSE /\ pc' = "done"
                /\ UNCHANGED <<printed, called, yaml_files_created, page,
                               all_repos_info>>
    /\ UNCHANGED <<args, current_directory, branch, services, key_read,
                   jwt_token, installation_token, net, fs_writes, served,
                   idx, repos, count, failed>>

(***************************************************************************)
(* The organization's repository collection as the GitHub API pages it     *)
(* out: a page holds at most PerPage records not paged out before, and at  *)
(* most MaxRepos records are paged out in one run.                         *)
(***************************************************************************)
DistinctSeqs(S, n) ==
    {s \in UNION {[1..k -> S] : k \in 0..n} :
        \A i, j \in DOMAIN s : i # j => s[i] # s[j]}

PageBodies ==
    {b \in DistinctSeqs(ApiRepos \ served, PerPage) :
        Cardinality(served) + Len(b) <= MaxRepos}

ListOutcomes ==
    {[raised |-> FALSE, status |-> 200, body |-> b] : b \in PageBodies}
      \cup {[raised |-> FALSE, status |-> st, body |-> <<>>] : st \in {403, 500}}
      \cup {[raised |-> TRUE, status |-> 0, body |-> <<>>]}

(***************************************************************************)
(* get_repositories_api(): the body of the for loop over one page,         *)
(* lines 103-110.                                                          *)
(***************************************************************************)
RepoInfo(repo) == [name |-> Lower(repo.name), html_url |-> repo.html_url]

Included(body, cd, repo_pattern) ==
    LET infos == [i \in DOMAIN body |-> RepoInfo(body[i])]
    IN  SelectSeq(infos, LAMBDA r :
            r.name # cd /\ PatternAccepts(repo_pattern, r.name))

\* Variant: only an empty page ends the loop.
LastPage_EmptyOnly(r) == r.status = 200 /\ r.body = <<>>

\* The loop ends on a status other than 200 or on an empty page.
LastPage(r) == r.status # 200 \/ r.body = <<>>

(***************************************************************************)
(* get_repositories_api(organization, token, current_directory,            *)
(* repo_pattern): one iteration of the while loop, lines 91-111.  An       *)
(* exception of requests.get is caught nowhere.                            *)
(***************************************************************************)
FetchPage(cd, repo_pattern) ==
    /\ pc = "get_repositories_api"
    /\ \E r \in ListOutcomes :
         /\ net' = Append(net, [kind |-> "repos",
                                auth |-> installation_token,
                                page |-> page,
                                raised |-> r.raised,
                                status |-> r.status,
                                body |-> r.body])
         /\ IF r.raised
              THEN /\ pc' = "fatal"
                   /\ UNCHANGED <<page, all_repos_info, served, idx>>
              ELSE IF LastPage(r)
                THEN /\ pc' = "list_repositories"
                     /\ idx' = 1
                     /\ UNCHANGED <<page, all_repos_info, served>>
                ELSE /\ all_repos_info' =
                          all_repos_info \o Included(r.body, cd, repo_pattern)
                     /\ page' = page + 1
                     /\ served' = served \cup Range(r.body)
                     /\ UNCHANGED <<pc, idx>>
    /\ UNCHANGED <<args, current_directory, branch, services, key_read,
                   jwt_token, installation_token, fs_writes, printed, called,
                   yaml_files_created, repos, count, failed>>

\* list_repositories calls get_repositories_api(organization, token): the
\* parameters current_directory and repo_pattern keep their default, None.
GetRepositoriesApi == FetchPage(None, None)

(***************************************************************************)
(* create_or_update_catalog_info(): the directory is created when no       *)
(* entry of that name exists, then the descriptor is written over whatever *)
(* is there.  When the entry is a plain file, open() raises.               *)
(***************************************************************************)
PathExists(sv, name) == sv.exists /\ name \in DOMAIN sv.entries

WriteFails(sv, name) == PathExists(sv, name) /\ ~sv.entries[name].isdir

WithDescriptor(sv, name, content) ==
    [exists |-> TRUE,
     entries |-> [n \in (IF sv.exists THEN DOMAIN sv.entries ELSE {}) \cup {name}
                    |-> IF n = name THEN Dir(<<content>>) ELSE sv.entries[n]]]

WritesOf(sv, name) ==
    (IF PathExists(sv, name) THEN {} ELSE {[op |-> "makedirs", name |-> name]})
      \cup {[op |-> "write", name |-> name]}

\* Variant: the pattern is not applied.
Selected_IgnoresPattern(repo_name, cd, repo_pattern) == repo_name # cd

\* The filter of list_repositories, lines 122-126.
Selected(repo_name, cd, repo_pattern) ==
    repo_name # cd /\ PatternAccepts(repo_pattern, repo_name)

(***************************************************************************)
(* list_repositories(): one iteration of the for loop, lines 121-129.      *)
(***************************************************************************)
ListRepositoriesStep ==
    /\ pc = "list_repositories"
    /\ idx <= Len(all_repos_info)
    /\ LET repo == all_repos_info[idx]
           repo_name == Lower(repo.name)
       IN  IF ~Selected(repo_name, current_directory, args.repo_pattern)
             THEN /\ idx' = idx + 1
                  /\ UNCHANGED <<services, fs_writes, yaml_files_created, pc>>
             ELSE IF WriteFails(services, repo_name)
               THEN /\ pc' = "fatal"
                    /\ UNCHANGED <<services, fs_writes, yaml_files_created,
                                   idx>>
               ELSE /\ services' =
                         WithDescriptor(services, repo_name,
                             YamlContent(args.org, repo_name, repo.html_url))
                    /\ fs_writes' = fs_writes \cup WritesOf(services, repo_name)
                    /\ yaml_files_created' = yaml_files_created + 1
                    /\ idx' = idx + 1
                    /\ UNCHANGED pc
    /\ UNCHANGED <<args, current_directory, branch, key_read, jwt_token,
                   installation_token, net, printed, called, served, page,
                   all_repos_info, repos, count, failed>>

\* The loop is over: the total is printed and main returns.
ListRepositoriesEnd ==
    /\ pc = "list_repositories"
    /\ idx > Len(all_repos_info)
    /\ pc' = "done"
    /\ UNCHANGED <<args, current_directory, branch, services, key_read,
                   jwt_token, installation_token, net, fs_writes, printed,
                   called, served, page, all_repos_info, idx,
                   yaml_files_created, repos, count, failed>>

(***************************************************************************)
(* register_yamls(): os.listdir("./services") filtered by os.path.isdir,   *)
(* line 156.  A missing ./services raises and nothing catches it.  The     *)
(* order of os.listdir is arbitrary: the loop takes the names in any       *)
(* order.                                                                  *)
(***************************************************************************)
Subdirectories(sv) == {n \in DOMAIN sv.entries : sv.entries[n].isdir}

RegisterListdir ==
    /\ pc = "listdir"
    /\ IF ~services.exists
         THEN /\ pc' = "fatal"
              /\ UNCHANGED <<repos, count>>
         ELSE /\ repos' = Subdirectories(services)
              /\ count' = 0
              /\ pc' = "register_yamls"
    /\ UNCHANGED <<args, current_directory, branch, services, key_read,
                   jwt_token, installation_token, net, fs_writes, printed,
                   called, served, page, all_repos_info, idx,
                   yaml_files_created, failed>>

\* api_payload["target"], line 161
Target(organization, repo_name) ==
    [organization |-> organization,
     repository |-> current_directory,
     branch |-> branch,
     path |-> <<"services/">> \o repo_name \o <<"/catalog-info.yaml">>]

\* Variant: the reference names the working directory, as the target does.
EntityRef_OfWorkingDirectory(repo_name) ==
    <<"component:default/">> \o current_directory

\* refresh_payload["entityRef"], line 183
EntityRef(repo_name) == <<"component:default/">> \o repo_name

LocationOutcomes ==
    {Response(st) : st \in {200, 201, 409, 404, 500}} \cup {Raised}

RefreshOutcomes == {Response(200), Response(500), Raised}

LocationRequest(repo_name, r) ==
    [kind |-> "locations",
     repo |-> repo_name,
     target |-> Target(args.org, repo_name),
     x_api_key |-> args.x_api_key,
     account |-> args.account,
     raised |-> r.raised,
     status |-> r.status]

RefreshRequest(repo_name, r) ==
    [kind |-> "refresh",
     repo |-> repo_name,
     entityRef |-> EntityRef(repo_name),
     x_api_key |-> args.x_api_key,
     account |-> args.account,
     raised |-> r.raised,
     status |-> r.status]

\* Variant: "status_code == 200 or 201", which is always true.
Registered_AlwaysTrue(r) == r.status = 200 \/ TRUE

\* api_response.status_code == 200 or api_response.status_code == 201
Registered(r) == r.status = 200 \/ r.status = 201

\* api_response.status_code == 409
Conflict(r) == r.status = 409

(***************************************************************************)
(* register_yamls(): one iteration of the for loop, lines 157-192.  The    *)
(* try block covers the location POST and the refresh POST; a              *)
(* RequestException of either is caught and reported.                      *)
(***************************************************************************)
RegisterRepo ==
    /\ pc = "register_yamls"
    /\ \E repo_name \in repos :
         /\ repos' = repos \ {repo_name}
         /\ IF repo_name = current_directory
              THEN UNCHANGED <<net, count, failed>>
              ELSE \E r \in LocationOutcomes, f \in RefreshOutcomes :
                     IF r.raised
                       THEN /\ net' = Append(net, LocationRequest(repo_name, r))
                            /\ failed' = failed \cup {repo_name}
                            /\ UNCHANGED count
                       ELSE IF Registered(r)
                         THEN /\ net' = Append(net, LocationRequest(repo_name, r))
                              /\ count' = count + 1
                              /\ UNCHANGED failed
                         ELSE IF Conflict(r)
                           THEN /\ net' = net \o <<LocationRequest(repo_name, r),
                                                   RefreshRequest(repo_name, f)>>
                                /\ IF f.raised
                                     THEN /\ failed' = failed \cup {repo_name}
                                          /\ UNCHANGED count
                                     ELSE /\ count' = count + 1
                                          /\ UNCHANGED failed
                           ELSE /\ net' = Append(net, LocationRequest(repo_name, r))
                                /\ failed' = failed \cup {repo_name}
                                /\ UNCHANGED count
    /\ UNCHANGED <<args, current_directory, branch, services, pc, key_read,
                   jwt_token, installation_token, fs_writes, printed, called,
                   served, page, all_repos_info, idx, yaml_files_created>>

\* The loop is over: register_yamls and main return.
RegisterEnd ==
    /\ pc = "register_yamls"
    /\ repos = {}
    /\ pc' = "done"
    /\ UNCHANGED <<args, current_directory, branch, services, key_read,
                   jwt_token, installation_token, net, fs_writes, printed,
                   called, served, page, all_repos_info, idx,
                   yaml_files_created, repos, count, failed>>

Next ==
    \/ MainValidate
    \/ GenerateJwt
    \/ GetInstallationToken
    \/ Dispatch
    \/ GetRepositoriesApi
    \/ ListRepositoriesStep
    \/ ListRepositoriesEnd
    \/ RegisterListdir
    \/ RegisterRepo
    \/ RegisterEnd

Spec == Init /\ [][Next]_vars

(***************************************************************************)
(* Vocabulary of the properties.                                           *)
(***************************************************************************)
Terminal == pc \in {"done", "exited", "fatal"}

SwitchesSet(a) ==
    Cardinality({sw \in {"create_yamls", "register_yamls", "run_all"} : a[sw]})

RequestsOf(kind) == SelectSeq(net, LAMBDA q : q.kind = kind)

TokenExchanged ==
    /\ Len(net) >= 1
    /\ net[1].kind = "access_tokens"
    /\ ~net[1].raised
    /\ net[1].status = 201

Authenticated ==
    /\ key_read
    /\ jwt_token # None
    /\ installation_token # None
    /\ TokenExchanged

\* Positions main reaches only through lines 229-238.
PastAuthentication ==
    pc \in {"dispatch", "get_repositories_api", "list_repositories",
            "listdir", "register_yamls", "done", "exited"}

\* The key was tried and gave no assertion, or the exchange was sent and
\* did not answer 201.
AuthenticationFailed ==
    \/ key_read /\ jwt_token = None /\ pc # "generate_jwt"
    \/ Len(net) >= 1 /\ ~TokenExchanged

NoSideEffects ==
    /\ ~key_read
    /\ jwt_token = None
    /\ installation_token = None
    /\ net = <<>>
    /\ fs_writes = {}
    /\ called = {}

(***************************************************************************)
(* C1: unless exactly one of the three action switches is set, the run     *)
(* prints the error and exits without reading the key, issuing the token,  *)
(* sending a request, writing a file or dispatching a mode.                *)
(***************************************************************************)
C1_ExactlyOneSwitchOrExit ==
    (SwitchesSet(args) # 1 /\ pc # "main") =>
        /\ pc = "exited"
        /\ "no_action" \in printed
        /\ NoSideEffects

(***************************************************************************)
(* C2: with no action switch set, whatever the other options are, main     *)
(* returns early: no key read, no token exchange, no request and no write  *)
(* happens in the run.                                                     *)
(***************************************************************************)
C2_NoSwitchNoEffects ==
    ~AnySwitch(args) =>
        /\ pc \in {"main", "exited"}
        /\ pc = "exited" => "no_action" \in printed
        /\ NoSideEffects

C2_Witness ==
    /\ ~AnySwitch(args)
    /\ pc = "exited"
    /\ args.org # None
    /\ args.x_api_key # None
    /\ args.account # None
    /\ args.repo_pattern # None

(***************************************************************************)
(* C3: the repository named like the working directory is never in the     *)
(* list get_repositories_api returns, never gets a descriptor written and  *)
(* never gets a location POSTed.                                           *)
(***************************************************************************)
C3_SelfNeverProcessed ==
    /\ \A i \in DOMAIN all_repos_info :
          all_repos_info[i].name # current_directory
    /\ \A w \in fs_writes : w.name # current_directory
    /\ \A i \in DOMAIN net :
          net[i].kind = "locations" => net[i].repo # current_directory

(***************************************************************************)
(* C4: a run-all run with organization, API key and account given and the  *)
(* token issued has performed both descriptor generation and registration  *)
(* when it is done.                                                        *)
(***************************************************************************)
C4_RunAllRunsBothModes ==
    ( /\ pc = "done"
      /\ args.run_all
      /\ ~RegisterInputsMissing(args)
      /\ Authenticated )
        => {"create", "register"} \subseteq called

(***************************************************************************)
(* C7: when a switch is set and an input its mode requires is missing      *)
(* (organization for create; organization, API key or account for          *)
(* register), no request has been sent and nothing has been written.       *)
(***************************************************************************)
C7_MissingInputNoEffects ==
    ( \/ args.create_yamls /\ args.org = None
      \/ args.register_yamls /\
           (args.org = None \/ args.x_api_key = None \/ args.account = None) )
        => /\ net = <<>>
           /\ fs_writes = {}

(***************************************************************************)
(* C8: with a switch set, a mode is dispatched only after the key was read *)
(* and the exchange answered 201, and the exchange is sent at most once,   *)
(* as the first request; when the key is unreadable or the exchange does   *)
(* not answer 201 the run is in the fatal state with no further request,   *)
(* no write and no mode dispatched.                                        *)
(***************************************************************************)
C8_AuthenticateThenDispatch ==
    AnySwitch(args) =>
        /\ (PastAuthentication \/ called # {}) => Authenticated
        /\ Len(RequestsOf("access_tokens")) <= 1
        /\ \A i \in DOMAIN net : net[i].kind = "access_tokens" => i = 1
        /\ AuthenticationFailed =>
              /\ pc = "fatal"
              /\ Len(net) <= 1
              /\ fs_writes = {}
              /\ called = {}
        /\ pc = "fatal" /\ called = {} => AuthenticationFailed

C8_Witness ==
    /\ pc = "fatal"
    /\ args.create_yamls
    /\ args.org # None
    /\ Len(net) = 1
    /\ net[1].kind = "access_tokens"
    /\ net[1].status = 401

(***************************************************************************)
(* C9: get_repositories_api requests pages 1, 2, 3, ... in order and stops *)
(* at the first page that is empty or not answered with 200; what it       *)
(* returns is the records of the pages before that one, in the order the   *)
(* API gave them (every record is included, as the program calls it with   *)
(* no directory and no pattern), names lowercased.                         *)
(***************************************************************************)
RECURSIVE RecordsOf(_)
RecordsOf(pages) ==
    IF pages = <<>>
      THEN <<>>
      ELSE RecordsOf(SubSeq(pages, 1, Len(pages) - 1)) \o
             [i \in DOMAIN pages[Len(pages)].body |->
                [name |-> Lower(pages[Len(pages)].body[i].name),
                 html_url |-> pages[Len(pages)].body[i].html_url]]

StopsPaging(q) == q.raised \/ q.status # 200 \/ q.body = <<>>

C9_PartialListingInApiOrder ==
    LET gets == RequestsOf("repos")
        n == Len(gets)
    IN  /\ \A i \in 1..n : gets[i].page = i
        /\ \A i \in 1..(n - 1) : ~StopsPaging(gets[i])
        /\ pc = "get_repositories_api" =>
              /\ \A i \in 1..n : ~StopsPaging(gets[i])
              /\ all_repos_info = RecordsOf(gets)
        /\ pc \in {"list_repositories", "done"} /\ "create" \in called =>
              /\ n >= 1
              /\ StopsPaging(gets[n])
              /\ ~gets[n].raised
              /\ all_repos_info = RecordsOf(SubSeq(gets, 1, n - 1))

C9_Witness ==
    LET gets == RequestsOf("repos")
    IN  /\ pc = "list_repositories"
        /\ Len(gets) = 3
        /\ gets[3].status = 500
        /\ Len(all_repos_info) = 3
        /\ all_repos_info[1].name = <<"w", "d">>
        /\ all_repos_info[3].name = <<"i", "d">>

(***************************************************************************)
(* C10: when create mode is done, every listed repository whose lowercased *)
(* name passes the pattern (any name when there is none) and is not the    *)
(* working directory's name has services/<name>/catalog-info.yaml holding  *)
(* that name, its URL, the organization and the slug org/name; nothing was *)
(* written for a repository that fails the filter; with nothing listed,    *)
(* nothing was written and the count is 0.                                 *)
(***************************************************************************)
PassesFilter(name) ==
    /\ name # current_directory
    /\ \/ args.repo_pattern = None
       \/ /\ Len(args.repo_pattern) <= Len(name)
          /\ \A k \in DOMAIN args.repo_pattern :
                args.repo_pattern[k] \in {".", name[k]}

C10_DescriptorsForFilteredRepos ==
    (pc = "done" /\ "create" \in called) =>
        /\ \A i \in DOMAIN all_repos_info :
              LET r == all_repos_info[i]
                  name == Lower(r.name)
              IN  PassesFilter(name) =>
                    /\ services.exists
                    /\ name \in DOMAIN services.entries
                    /\ services.entries[name].isdir
                    /\ services.entries[name].yaml =
                          << [name |-> name,
                              source_location |->
                                  <<"u", "r", "l", ":">> \o r.html_url,
                              project_slug |-> args.org \o <<"/">> \o name,
                              system |-> args.org] >>
                    /\ [op |-> "write", name |-> name] \in fs_writes
        /\ \A w \in fs_writes :
              \E i \in DOMAIN all_repos_info :
                  /\ Lower(all_repos_info[i].name) = w.name
                  /\ PassesFilter(w.name)
        /\ yaml_files_created =
              Cardinality({i \in DOMAIN all_repos_info :
                              PassesFilter(Lower(all_repos_info[i].name))})
        /\ all_repos_info = <<>> => fs_writes = {} /\ yaml_files_created = 0

C10_Witness ==
    /\ pc = "done"
    /\ "create" \in called
    /\ args.repo_pattern = <<".", "d">>
    /\ current_directory = <<"i", "d">>
    /\ Len(all_repos_info) = 3
    /\ fs_writes = {[op |-> "makedirs", name |-> <<"w", "d">>],
                    [op |-> "write", name |-> <<"w", "d">>]}
    /\ yaml_files_created = 1

(***************************************************************************)
(* C5 as stated: a 409 answer to the location POST is followed by exactly  *)
(* one refresh request carrying component:default/<name>, and the          *)
(* repository is counted as registered and not reported as failed; no      *)
(* refresh is sent after any other outcome.                                *)
(***************************************************************************)
NewRequests == SubSeq(net', Len(net) + 1, Len(net'))

LocationPosted ==
    /\ Len(net') > Len(net)
    /\ NewRequests[1].kind = "locations"

ConflictAnswered ==
    /\ LocationPosted
    /\ ~NewRequests[1].raised
    /\ NewRequests[1].status = 409

OneRefreshFollows ==
    /\ Len(NewRequests) = 2
    /\ NewRequests[2].kind = "refresh"
    /\ NewRequests[2].entityRef =
          <<"component:default/">> \o NewRequests[1].repo

NoRefreshFollows == Len(NewRequests) = 1

C5_ConflictCountsAsRegistered ==
    [][ LocationPosted =>
          IF ConflictAnswered
            THEN /\ OneRefreshFollows
                 /\ count' = count + 1
                 /\ failed' = failed
            ELSE NoRefreshFollows ]_vars

(***************************************************************************)
(* C5 as amended: a 409 answer to the location POST is followed by exactly *)
(* one refresh request carrying component:default/<name>; the repository   *)
(* is counted as registered when the refresh request is answered (with any *)
(* status) and is reported as failed, and not counted, when the refresh    *)
(* request raises a transport exception; no refresh is sent after any      *)
(* other outcome.                                                          *)
(***************************************************************************)
C5_ConflictRefreshedThenCounted ==
    [][ LocationPosted =>
          IF ConflictAnswered
            THEN /\ OneRefreshFollows
                 /\ IF NewRequests[2].raised
                      THEN /\ count' = count
                           /\ failed' = failed \cup {NewRequests[1].repo}
                      ELSE /\ count' = count + 1
                           /\ failed' = failed
            ELSE NoRefreshFollows ]_vars

C5_Witness ==
    \E i \in DOMAIN net :
        /\ net[i].kind = "locations"
        /\ net[i].status = 409
        /\ i + 1 \in DOMAIN net
        /\ net[i + 1].kind = "refresh"
        /\ net[i + 1].status = 500
        /\ net[i].repo \notin failed
        /\ count = 1

(***************************************************************************)
(* C6: a location POST answered with anything but 200, 201 or 409, or      *)
(* raising a transport exception, is reported as failed for that           *)
(* repository and not counted; the loop does not abort, and when register  *)
(* mode is done every subdirectory of services/ but the working            *)
(* directory's own has had its location POST.                              *)
(***************************************************************************)
PostFailed(q) ==
    q.kind = "locations" /\ (q.raised \/ q.status \notin {200, 201, 409})

PostCounted(i) ==
    /\ net[i].kind = "locations"
    /\ ~net[i].raised
    /\ \/ net[i].status \in {200, 201}
       \/ net[i].status = 409 /\ ~net[i + 1].raised

C6_FailureIsolated ==
    "register" \in called =>
        /\ \A i \in DOMAIN net : PostFailed(net[i]) => net[i].repo \in failed
        /\ count = Cardinality({i \in DOMAIN net : PostCounted(i)})
        /\ Len(RequestsOf("locations")) >= 1 => pc \in {"register_yamls", "done"}
        /\ pc = "done" =>
              \A d \in DOMAIN services.entries :
                  (services.entries[d].isdir /\ d # current_directory) =>
                      Len(SelectSeq(net, LAMBDA q :
                              q.kind = "locations" /\ q.repo = d)) = 1

C6_Witness ==
    /\ pc = "done"
    /\ "register" \in called
    /\ Len(net) = 3
    /\ net[2].kind = "locations"
    /\ net[2].status = 404
    /\ net[3].kind = "locations"
    /\ net[3].status = 201
    /\ count = 1
    /\ failed = {net[2].repo}

====
